---- MODULE Spec2Model ----
(***************************************************************************)
(* wen: command-line history management (src/python/wen/wen.py).           *)
(*                                                                         *)
(* The store is the sqlite table `entries`; a row's rowid is its position  *)
(* in the sequence `entries`.  Every invocation of the program is one      *)
(* short-lived process: it parses its arguments, runs one of the four      *)
(* commands against the store and exits.                                   *)
(*                                                                         *)
(* Text is modelled as a sequence of one-character strings, so that        *)
(* indexing (cmdline[0]), str.strip() and str.format() are computed the    *)
(* way Python computes them.                                               *)
(***************************************************************************)
EXTENDS Integers, Sequences, FiniteSets, TLC

(***************************************************************************)
(* Bounds of the model.                                                    *)
(***************************************************************************)
\* rows the table may hold in the reconstruction workload (Spec)
MaxEvents == 3
\* rows the table may hold in the append workload (SpecAppend)
MaxStored == 2
\* rows the table may hold in the boundary workload (SpecBoundary)
MaxBoundaries == 2
\* rows the table may hold in the workload on any file (SpecMain)
MaxOpened == 1
\* rows the table may hold, with those about to be inserted, in the workload
\* of concurrent appends (SpecRace)
MaxRaced == 3

\* timestamps given with -t; the range crosses a minute, so that the order of
\* the stored text is not the order of one of its fields
Timestamps == 59..60
\* pids given with -p (one of them with two digits, for the session names)
Pids == {1, 12}

(***************************************************************************)
(* Program constants.                                                      *)
(***************************************************************************)
DB_APPLICATION_ID == 7234935    \* 0x6e6577, 'wen'
DB_VERSION == 7

ENTRYTYPE_HISTORY == 0
ENTRYTYPE_SESSION_START == 1
ENTRYTYPE_SESSION_STOP == 2

\* Python's None / SQL NULL: no text has an element that is not one character
None == <<"None">>

\* a bug: "pwd" is missing from the list
IGNORE_LIST_NoPwd == {<<"l", "s">>}

IGNORE_LIST == {<<"p", "w", "d">>, <<"l", "s">>}

\* the characters str.strip() removes
Whitespace == {" ", "\t", "\n", "\r"}

(***************************************************************************)
(* Texts the workloads pass as --cmdline.                                  *)
(***************************************************************************)
\* commands a shell hook records
ShellCmdlines == {<<"a">>, <<"b">>}
\* absent, empty, leading space, ignore-list entries (one with a trailing
\* space, one with a leading space), and two texts that differ only in
\* where their space is
Cmdlines ==
    {None, <<>>, <<" ", "a">>, <<"a", " ">>, <<"p", "w", "d">>, <<"l", "s", " ">>,
     <<" ", "l", "s">>}

(***************************************************************************)
(* sqlite: datetime(?, 'unixepoch') and strftime('%s', ts).                *)
(* The column holds the text 'YYYY-MM-DD HH:MM:SS'; over the timestamps of *)
(* the model only the MM and SS fields vary, and the text is modelled by   *)
(* these two fields.  ORDER BY ts compares the stored text, field by field.*)
(***************************************************************************)
SecondsPerMinute == 60

datetime(ts) == <<ts \div SecondsPerMinute, ts % SecondsPerMinute>>

strftime_s(text) == text[1] * SecondsPerMinute + text[2]

\* a bug: the texts are compared by their seconds field alone
TextLess_SecondsOnly(a, b) == a[2] < b[2]

\* text comparison of two stored datetimes: a < b
TextLess(a, b) == \/ a[1] < b[1]
                  \/ a[1] = b[1] /\ a[2] < b[2]

(***************************************************************************)
(* Python helpers: list.reverse(), str.strip(), "{:d}".format(), dict.     *)
(***************************************************************************)
Reverse(s) == [i \in 1..Len(s) |-> s[Len(s) + 1 - i]]

RECURSIVE LStrip(_)
LStrip(s) == IF s # <<>> /\ Head(s) \in Whitespace THEN LStrip(Tail(s)) ELSE s

strip(s) == Reverse(LStrip(Reverse(LStrip(s))))

Digits == <<"0", "1", "2", "3", "4", "5", "6", "7", "8", "9">>

RECURSIVE FormatNat(_)
FormatNat(n) ==
    IF n < 10 THEN <<Digits[n + 1]>>
    ELSE FormatNat(n \div 10) \o <<Digits[(n % 10) + 1]>>

\* "{:d}".format(n) and str(n)
FormatInt(n) == IF n < 0 THEN <<"-">> \o FormatNat(-n) ELSE FormatNat(n)

\* A dict is a sequence of [k, v] items in insertion order.
DictKeys(d) == {d[i].k : i \in 1..Len(d)}

DictHas(d, key) == key \in DictKeys(d)

DictGet(d, key) == d[CHOOSE i \in 1..Len(d) : d[i].k = key].v

\* d[key] = value: a present key keeps its position
DictSet(d, key, value) ==
    IF DictHas(d, key)
    THEN [i \in 1..Len(d) |-> IF d[i].k = key THEN [k |-> key, v |-> value] ELSE d[i]]
    ELSE Append(d, [k |-> key, v |-> value])

\* del d[key]
DictDel(d, key) == SelectSeq(d, LAMBDA it : it.k # key)

(***************************************************************************)
(* class WenDB.  A table value `db` is the sequence of rows in rowid       *)
(* order; the insert operators return the table after the commit.          *)
(***************************************************************************)
Row(entrytype, ts, pid, cmdline) ==
    [entrytype |-> entrytype, ts |-> datetime(ts), pid |-> pid, cmdline |-> cmdline]

insert_history(db, ts, pid, cmdline) ==
    Append(db, Row(ENTRYTYPE_HISTORY, ts, pid, cmdline))

insert_session_start(db, ts, pid, cmdline) ==
    Append(db, Row(ENTRYTYPE_SESSION_START, ts, pid, cmdline))

\* a bug: the statement is an UPDATE of the latest row
insert_session_stop_Replaces(db, ts, pid, cmdline) ==
    IF db = <<>> THEN <<Row(ENTRYTYPE_SESSION_STOP, ts, pid, cmdline)>>
    ELSE [db EXCEPT ![Len(db)] = Row(ENTRYTYPE_SESSION_STOP, ts, pid, cmdline)]

insert_session_stop(db, ts, pid, cmdline) ==
    Append(db, Row(ENTRYTYPE_SESSION_STOP, ts, pid, cmdline))

\* a bug: rows with equal ts come in rowid order
ScanBefore_TiesForward(db, i, j) ==
    \/ TextLess(db[j].ts, db[i].ts)
    \/ db[i].ts = db[j].ts /\ i < j

\* ORDER BY ts DESC.  Both queries are answered by a backward scan of an
\* index that ends in (ts, rowid) (entries_ts_idx, entries_pid_ts_idx), so
\* row i comes before row j when its text is greater, or equal with the
\* greater rowid.
ScanBefore(db, i, j) ==
    \/ TextLess(db[j].ts, db[i].ts)
    \/ db[i].ts = db[j].ts /\ i > j

\* the rowids of `rows` in the order the cursor yields them
OrderByTsDesc(db, rows) ==
    [k \in 1..Cardinality(rows) |->
        CHOOSE i \in rows : Cardinality({j \in rows : ScanBefore(db, j, i)}) = k - 1]

\* a bug: the query has no pid = ? condition
get_last_command_AnyPid(db, pid) ==
    LET rows == {i \in 1..Len(db) : db[i].entrytype = ENTRYTYPE_HISTORY}
        cur == OrderByTsDesc(db, rows)
    IN  IF cur = <<>> THEN None ELSE db[cur[1]].cmdline

\* a bug: the order is ascending, the oldest command is returned
get_last_command_Oldest(db, pid) ==
    LET rows == {i \in 1..Len(db) :
                    db[i].entrytype = ENTRYTYPE_HISTORY /\ db[i].pid = pid}
        cur == OrderByTsDesc(db, rows)
    IN  IF cur = <<>> THEN None ELSE db[cur[Len(cur)]].cmdline

\* a bug: only the commands after the pid's latest boundary event count
get_last_command_SinceBoundary(db, pid) ==
    LET rows == {i \in 1..Len(db) :
                    /\ db[i].entrytype = ENTRYTYPE_HISTORY /\ db[i].pid = pid
                    /\ ~ \E b \in 1..Len(db) :
                          /\ db[b].entrytype # ENTRYTYPE_HISTORY /\ db[b].pid = pid
                          /\ ScanBefore(db, b, i)}
        cur == OrderByTsDesc(db, rows)
    IN  IF cur = <<>> THEN None ELSE db[cur[1]].cmdline

get_last_command(db, pid) ==
    LET rows == {i \in 1..Len(db) :
                    db[i].entrytype = ENTRYTYPE_HISTORY /\ db[i].pid = pid}
        cur == OrderByTsDesc(db, rows)
    IN  IF cur = <<>> THEN None ELSE db[cur[1]].cmdline

\* a bug: the closed session is put first in the pid's list
add_to_sessions_Prepend(sessions, pid, history) ==
    LET s1 == IF DictHas(sessions, pid) THEN sessions ELSE DictSet(sessions, pid, <<>>)
    IN  DictSet(s1, pid, <<Reverse(history)>> \o DictGet(s1, pid))

\* a bug: the history is not reversed
add_to_sessions_NoReverse(sessions, pid, history) ==
    LET s1 == IF DictHas(sessions, pid) THEN sessions ELSE DictSet(sessions, pid, <<>>)
    IN  DictSet(s1, pid, Append(DictGet(s1, pid), history))

\* sessions is the dict pid -> list of histories
add_to_sessions(sessions, pid, history) ==
    LET s1 == IF DictHas(sessions, pid) THEN sessions ELSE DictSet(sessions, pid, <<>>)
    IN  DictSet(s1, pid, Append(DictGet(s1, pid), Reverse(history)))

\* a bug: the row that creates acc[pid] is not appended to it
Accumulate_DropsFirst(st, row) ==
    [acc |-> IF DictHas(st.acc, row.pid)
             THEN DictSet(st.acc, row.pid,
                          Append(DictGet(st.acc, row.pid), <<row.ts, row.cmdline>>))
             ELSE DictSet(st.acc, row.pid, <<>>),
     sessions |-> st.sessions]

\* HISTORY: acc[pid].append((ts, cmdline)), creating acc[pid] first
Accumulate(st, row) ==
    LET a1 == IF DictHas(st.acc, row.pid) THEN st.acc
              ELSE DictSet(st.acc, row.pid, <<>>)
    IN  [acc |-> DictSet(a1, row.pid,
                         Append(DictGet(a1, row.pid), <<row.ts, row.cmdline>>)),
         sessions |-> st.sessions]

\* a bug: a boundary event closes a session even when none is open
CloseSession_EmitsEmpty(st, pid) ==
    [acc |-> DictDel(st.acc, pid),
     sessions |-> add_to_sessions(st.sessions, pid,
                      IF DictHas(st.acc, pid) THEN DictGet(st.acc, pid) ELSE <<>>)]

\* SESSION_START, SESSION_STOP: if pid in acc, add it to sessions and delete it
CloseSession(st, pid) ==
    IF DictHas(st.acc, pid)
    THEN [acc |-> DictDel(st.acc, pid),
          sessions |-> add_to_sessions(st.sessions, pid, DictGet(st.acc, pid))]
    ELSE st

\* a bug: SESSION_STOP does not close the session
ScanRow_StopIgnored(st, row) ==
    IF row.entrytype = ENTRYTYPE_HISTORY THEN Accumulate(st, row)
    ELSE IF row.entrytype = ENTRYTYPE_SESSION_START THEN CloseSession(st, row.pid)
    ELSE st

\* the body of the loop over the cursor; st = [acc, sessions], row is
\* (entrytype, cast(strftime('%s', ts) as integer), pid, cmdline)
ScanRow(st, row) ==
    IF row.entrytype = ENTRYTYPE_HISTORY THEN Accumulate(st, row)
    ELSE IF row.entrytype = ENTRYTYPE_SESSION_START THEN CloseSession(st, row.pid)
    ELSE IF row.entrytype = ENTRYTYPE_SESSION_STOP THEN CloseSession(st, row.pid)
    ELSE st

\* the row the SELECT of get_sessions returns for rowid i
SelectRow(db, i) ==
    [entrytype |-> db[i].entrytype, ts |-> strftime_s(db[i].ts),
     pid |-> db[i].pid, cmdline |-> db[i].cmdline]

RECURSIVE ScanRows(_, _, _)
ScanRows(db, cur, st) ==
    IF cur = <<>> THEN st
    ELSE ScanRows(db, Tail(cur), ScanRow(st, SelectRow(db, Head(cur))))

\* a bug: the accumulators still open at the end of the scan are dropped
FlushAcc_Discard(acc, sessions) == sessions

\* for pid in acc: add_to_sessions(pid, acc[pid])
RECURSIVE FlushAcc(_, _)
FlushAcc(acc, sessions) ==
    IF acc = <<>> THEN sessions
    ELSE FlushAcc(Tail(acc), add_to_sessions(sessions, Head(acc).k, Head(acc).v))

\* a bug: every session of a pid gets the bare pid as its name
SessionName_NoIndex(pid, i) == FormatInt(pid)

\* "{:d}_{:d}".format(pid, i) if i > 0 else str(pid)
SessionName(pid, i) ==
    IF i > 0 THEN FormatInt(pid) \o <<"_">> \o FormatInt(i) ELSE FormatInt(pid)

\* for (i, history) in enumerate(histories), from index i on
RECURSIVE FlattenHistories(_, _, _, _)
FlattenHistories(flattened, pid, histories, i) ==
    IF i >= Len(histories) THEN flattened
    ELSE FlattenHistories(DictSet(flattened, SessionName(pid, i), histories[i + 1]),
                          pid, histories, i + 1)

\* for (pid, histories) in sessions.items()
RECURSIVE Flatten(_, _)
Flatten(flattened, items) ==
    IF items = <<>> THEN flattened
    ELSE Flatten(FlattenHistories(flattened, Head(items).k, Head(items).v, 0),
                 Tail(items))

\* the state of the scan when the loop over the cursor ends.  limit is None
\* at the only call (do_show): LIMIT -1, every row.
ScanAll(db) ==
    ScanRows(db, OrderByTsDesc(db, 1..Len(db)), [acc |-> <<>>, sessions |-> <<>>])

\* the dict `sessions` after the end-of-scan flush
CompletedSessions(db) ==
    LET st == ScanAll(db) IN FlushAcc(st.acc, st.sessions)

get_sessions(db) == Flatten(<<>>, CompletedSessions(db))

(***************************************************************************)
(* The commands.                                                           *)
(***************************************************************************)
\* a bug: a session start is filtered like a command
do_start_session_Filtered(db, ts, pid, cmdline) ==
    IF cmdline = None \/ cmdline = <<>> THEN db
    ELSE IF cmdline[1] = " " THEN db
    ELSE IF strip(cmdline) \in IGNORE_LIST THEN db
    ELSE IF db # <<>> /\ db[Len(db)] = Row(ENTRYTYPE_SESSION_START, ts, pid, cmdline) THEN db
    ELSE insert_session_start(db, ts, pid, cmdline)

do_start_session(db, ts, pid, cmdline) == insert_session_start(db, ts, pid, cmdline)

do_stop_session(db, ts, pid, cmdline) == insert_session_stop(db, ts, pid, cmdline)

\* a bug: the previous command is not looked up
do_append_NoDupCheck(db, ts, pid, cmdline, ignore_dups, ignore_space) ==
    IF cmdline = None \/ cmdline = <<>> THEN db
    ELSE IF ignore_space /\ cmdline[1] = " " THEN db
    ELSE IF strip(cmdline) \in IGNORE_LIST THEN db
    ELSE insert_history(db, ts, pid, cmdline)

\* a bug: --no-ignore-space also turns the ignore list off
do_append_SpaceFlagGatesList(db, ts, pid, cmdline, ignore_dups, ignore_space) ==
    IF cmdline = None \/ cmdline = <<>> THEN db
    ELSE IF ignore_space /\ cmdline[1] = " " THEN db
    ELSE IF ignore_space /\ strip(cmdline) \in IGNORE_LIST THEN db
    ELSE IF ignore_dups /\ get_last_command(db, pid) # None
                        /\ get_last_command(db, pid) = cmdline THEN db
    ELSE insert_history(db, ts, pid, cmdline)

do_append(db, ts, pid, cmdline, ignore_dups, ignore_space) ==
    IF cmdline = None \/ cmdline = <<>> THEN db
    ELSE IF ignore_space /\ cmdline[1] = " " THEN db
    ELSE IF strip(cmdline) \in IGNORE_LIST THEN db
    ELSE IF ignore_dups /\ get_last_command(db, pid) # None
                        /\ get_last_command(db, pid) = cmdline THEN db
    ELSE insert_history(db, ts, pid, cmdline)

\* the key do_show sorts by; <<>> stands for the None of an empty history
hist_key(hist) == IF hist = <<>> THEN <<>> ELSE <<hist[Len(hist)][1]>>

\* sorted(sessions.items(), key=...): stable, ascending.  Comparing None
\* with a key raises TypeError, and sorting two or more items compares
\* every key.
SortRaises(items) ==
    Len(items) >= 2 /\ \E i \in 1..Len(items) : hist_key(items[i].v) = <<>>

\* a bug: the sort is descending
SortedItems_Descending(items) ==
    IF Len(items) < 2 THEN items
    ELSE LET key == [i \in 1..Len(items) |-> hist_key(items[i].v)[1]]
             preceding == [i \in 1..Len(items) |->
                 Cardinality({j \in 1..Len(items) :
                     key[j] > key[i] \/ (key[j] = key[i] /\ j < i)})]
         IN  [k \in 1..Len(items) |->
                 items[CHOOSE i \in 1..Len(items) : preceding[i] = k - 1]]

SortedItems(items) ==
    IF Len(items) < 2 THEN items
    ELSE LET key == [i \in 1..Len(items) |-> hist_key(items[i].v)[1]]
             preceding == [i \in 1..Len(items) |->
                 Cardinality({j \in 1..Len(items) :
                     key[j] < key[i] \/ (key[j] = key[i] /\ j < i)})]
         IN  [k \in 1..Len(items) |->
                 items[CHOOSE i \in 1..Len(items) : preceding[i] = k - 1]]

\* datetime.fromtimestamp(ts).strftime("%Y-%m-%d  %H:%M:%S"): the MM and SS
\* fields, as for the stored text
fromtimestamp(ts) == <<ts \div SecondsPerMinute, ts % SecondsPerMinute>>

RECURSIVE PrintHistory(_)
PrintHistory(history) ==
    IF history = <<>> THEN <<>>
    ELSE <<<<"LINE", fromtimestamp(Head(history)[1]), Head(history)[2]>>>>
         \o PrintHistory(Tail(history))

\* the lines do_show prints for the sorted items
RECURSIVE PrintItems(_)
PrintItems(items) ==
    IF items = <<>> THEN <<>>
    ELSE <<<<"SESSION", Head(items).k>>>> \o PrintHistory(Head(items).v)
         \o <<<<"END SESSION", Head(items).k>>>> \o PrintItems(Tail(items))

do_show(db) ==
    LET flattened == get_sessions(db)
    IN  IF SortRaises(flattened)
        THEN [sessions |-> flattened, stdout |-> <<>>, exc |-> "TypeError"]
        ELSE [sessions |-> flattened,
              stdout |-> PrintItems(SortedItems(flattened)), exc |-> "none"]

(***************************************************************************)
(* The store file.  A file is what os.path.exists and the two PRAGMAs of   *)
(* check_db see of it; its table is the variable `entries`.                *)
(***************************************************************************)
File(exists, application_id, user_version) ==
    [exists |-> exists, application_id |-> application_id, user_version |-> user_version]

\* no file at db_path
NoFile == File(FALSE, 0, 0)

\* the file init_db leaves: DB_CREATE_STMTS set both PRAGMAs and create the
\* empty table
init_db == File(TRUE, DB_APPLICATION_ID, DB_VERSION)

\* a bug: the version is not checked
check_db_IgnoresVersion(f) ==
    IF f.application_id # DB_APPLICATION_ID THEN FALSE
    ELSE TRUE

\* TRUE: returns True; FALSE: raises DBExn
check_db(f) ==
    IF f.application_id # DB_APPLICATION_ID THEN FALSE
    ELSE IF f.user_version # DB_VERSION THEN FALSE
    ELSE TRUE

\* application ids and versions of files that other programs, or other
\* versions of this one, left at db_path
ApplicationIds == {DB_APPLICATION_ID, 0}
UserVersions == {DB_VERSION, DB_VERSION - 1}

\* sys.exit(n): the exit status of the process is n modulo 256, and
\* sys.exit(None), the return value of a main that ran, is 0
ExitStatus(n) == n % 256

EXIT_SUCCESS == 0

\* the status of a process that ends with an uncaught exception
EXIT_UNCAUGHT == 1

(***************************************************************************)
(* State: the store, and what the latest invocation was given and did.     *)
(***************************************************************************)
VARIABLES
    entries,    \* the table, in rowid order
    before,     \* the table as the latest invocation found it
    argv,       \* the arguments main parsed for the latest invocation
    sessions,   \* what get_sessions returned to do_show in that invocation
    stdout,     \* the lines do_show printed in that invocation
    exc,        \* the exception it ended with, or "none"
    file,       \* the file at db_path
    backups,    \* the files renamed aside by --fix, oldest first
    fix,        \* the --fix of the latest invocation
    status,     \* the exit status of the latest invocation
    running,    \* the wen-append processes that have not exited yet
    now,        \* the clock, in seconds
    overlapped  \* a wen-append process has started while another was running

vars == <<entries, before, argv, sessions, stdout, exc, file, backups, fix, status,
          running, now, overlapped>>

\* the wen-append processes the shell hooks of two terminals may have started
Procs == {"hook1", "hook2"}

\* a process that is not running
Idle == [pc |-> "idle", ts |-> 0, pid |-> 0, cmdline |-> None]

Args(cmd, ts, pid, cmdline, ignore_dups, ignore_space) ==
    [cmd |-> cmd, ts |-> ts, pid |-> pid, cmdline |-> cmdline,
     ignore_dups |-> ignore_dups, ignore_space |-> ignore_space]

\* an invocation without -t, -p and -c: ts and pid are the clock and the
\* parent pid, which only the recorder commands read
NoArgs(cmd) ==
    Args(cmd, CHOOSE t \in Timestamps : TRUE, CHOOSE p \in Pids : TRUE, None, TRUE, TRUE)

\* a new store, before any invocation
Init ==
    /\ entries = <<>>
    /\ before = <<>>
    /\ argv = NoArgs("none")
    /\ sessions = <<>>
    /\ stdout = <<>>
    /\ exc = "none"
    /\ file = NoFile
    /\ backups = <<>>
    /\ fix = FALSE
    /\ status = EXIT_SUCCESS
    /\ running = [p \in Procs |-> Idle]
    /\ now = CHOOSE t \in Timestamps : \A u \in Timestamps : t <= u
    /\ overlapped = FALSE

\* main, lines 252-273 and 289-291, of an invocation without --fix that finds
\* no file or a compatible one and runs alone: the file is created or kept,
\* and main returns None, unless the command ends with the exception e
Opened(e) ==
    /\ file' = init_db
    /\ backups' = backups
    /\ fix' = FALSE
    /\ status' = IF e = "none" THEN EXIT_SUCCESS ELSE EXIT_UNCAUGHT
    /\ UNCHANGED <<running, now, overlapped>>

\* a recorder command prints nothing and reconstructs nothing
Recorded(db, args, max) ==
    /\ Opened("none")
    /\ Len(db) <= max
    /\ entries' = db
    /\ before' = entries
    /\ argv' = args
    /\ sessions' = <<>>
    /\ stdout' = <<>>
    /\ exc' = "none"

\* main, cmd == "start-session"
StartSession(T, P, C, max) ==
    \E ts \in T, pid \in P, cmdline \in C :
        Recorded(do_start_session(entries, ts, pid, cmdline),
                 Args("start-session", ts, pid, cmdline, TRUE, TRUE), max)

\* main, cmd == "stop-session"
StopSession(T, P, C, max) ==
    \E ts \in T, pid \in P, cmdline \in C :
        Recorded(do_stop_session(entries, ts, pid, cmdline),
                 Args("stop-session", ts, pid, cmdline, TRUE, TRUE), max)

\* main, cmd == "append"; ND and NS are the values of --no-ignore-dups and
\* --no-ignore-space (FALSE when the option is absent)
AppendCmd(T, P, C, ND, NS, max) ==
    \E ts \in T, pid \in P, cmdline \in C, no_ignore_dups \in ND, no_ignore_space \in NS :
        Recorded(do_append(entries, ts, pid, cmdline, ~ no_ignore_dups, ~ no_ignore_space),
                 Args("append", ts, pid, cmdline, ~ no_ignore_dups, ~ no_ignore_space), max)

\* a bug: the rows the cursor has returned are deleted
Show_Consumes ==
    LET shown == do_show(entries)
    IN  /\ Opened(shown.exc)
        /\ entries' = <<>>
        /\ before' = entries
        /\ argv' = NoArgs("show")
        /\ sessions' = shown.sessions
        /\ stdout' = shown.stdout
        /\ exc' = shown.exc

\* main, cmd == "show" (or no cmd).  do_show reads none of ts, pid, cmdline.
Show ==
    LET shown == do_show(entries)
    IN  /\ Opened(shown.exc)
        /\ entries' = entries
        /\ before' = entries
        /\ argv' = NoArgs("show")
        /\ sessions' = shown.sessions
        /\ stdout' = shown.stdout
        /\ exc' = shown.exc

\* The reconstruction workload: session boundaries (recorded without
\* --cmdline) and commands (recorded with --no-ignore-dups, so that every
\* log of HISTORY and boundary events is reached), with any timestamp and
\* pid, and the sessions are shown.
Next ==
    \/ StartSession(Timestamps, Pids, {None}, MaxEvents)
    \/ StopSession(Timestamps, Pids, {None}, MaxEvents)
    \/ AppendCmd(Timestamps, Pids, ShellCmdlines, {TRUE}, {FALSE}, MaxEvents)
    \/ Show

Spec == Init /\ [][Next]_vars

\* The append workload: every kind of --cmdline under every setting of the
\* two flags, on a store of HISTORY events.
NextAppend == AppendCmd(Timestamps, Pids, Cmdlines, BOOLEAN, BOOLEAN, MaxStored)

SpecAppend == Init /\ [][NextAppend]_vars

\* the dispatch of main on the open store: the table it leaves
Dispatch(db, cmd, ts, pid, cmdline, ignore_dups, ignore_space) ==
    IF cmd = "start-session" THEN do_start_session(db, ts, pid, cmdline)
    ELSE IF cmd = "stop-session" THEN do_stop_session(db, ts, pid, cmdline)
    ELSE IF cmd = "append" THEN do_append(db, ts, pid, cmdline, ignore_dups, ignore_space)
    ELSE db

\* main, whatever the file at db_path is, with or without --fix and with the
\* default settings of the recorder.  An existing file that fails check_db
\* ends the invocation with return -1, or with --fix is renamed aside and
\* replaced by a new store; the command then runs on the open store.
Main(cmd, T, P, C, max) ==
    \E ts \in T, pid \in P, cmdline \in C, f \in BOOLEAN :
        LET valid == file.exists /\ check_db(file)
            db == IF valid THEN entries ELSE <<>>
            after == Dispatch(db, cmd, ts, pid, cmdline, TRUE, TRUE)
            shown == do_show(db)
        IN  /\ Len(after) <= max
            /\ before' = entries
            /\ argv' = Args(cmd, ts, pid, cmdline, TRUE, TRUE)
            /\ fix' = f
            /\ UNCHANGED <<running, now, overlapped>>
            /\ IF file.exists /\ ~ check_db(file) /\ ~ f
               THEN /\ status' = ExitStatus(-1)
                    /\ UNCHANGED <<entries, file, backups>>
                    /\ sessions' = <<>>
                    /\ stdout' = <<>>
                    /\ exc' = "none"
               ELSE /\ file' = init_db
                    /\ backups' = IF valid \/ ~ file.exists THEN backups
                                  ELSE Append(backups, [file |-> file, entries |-> entries])
                    /\ entries' = after
                    /\ sessions' = IF cmd = "show" THEN shown.sessions ELSE <<>>
                    /\ stdout' = IF cmd = "show" THEN shown.stdout ELSE <<>>
                    /\ exc' = IF cmd = "show" THEN shown.exc ELSE "none"
                    /\ status' = IF cmd = "show" /\ shown.exc # "none"
                                 THEN EXIT_UNCAUGHT ELSE EXIT_SUCCESS

\* the tables of the files found at db_path before the first invocation
FoundTables == {<<>>, <<Row(ENTRYTYPE_HISTORY, 59, 1, <<"a">>)>>}

\* any file may be at db_path before the first invocation: none, a store of
\* this program, or a file with another application id or version
InitMain ==
    /\ file \in {NoFile} \cup {File(TRUE, a, v) : a \in ApplicationIds, v \in UserVersions}
    /\ entries \in IF file.exists THEN FoundTables ELSE {<<>>}
    /\ before = <<>>
    /\ argv = NoArgs("none")
    /\ sessions = <<>>
    /\ stdout = <<>>
    /\ exc = "none"
    /\ backups = <<>>
    /\ fix = FALSE
    /\ status = EXIT_SUCCESS
    /\ running = [p \in Procs |-> Idle]
    /\ now = CHOOSE t \in Timestamps : \A u \in Timestamps : t <= u
    /\ overlapped = FALSE

NextMain ==
    \/ Main("start-session", Timestamps, Pids, {None}, MaxOpened)
    \/ Main("stop-session", Timestamps, Pids, {None}, MaxOpened)
    \/ Main("append", Timestamps, Pids, ShellCmdlines, MaxOpened)
    \/ Main("show", {NoArgs("show").ts}, {NoArgs("show").pid}, {None}, MaxOpened)

SpecMain == InitMain /\ [][NextMain]_vars

(***************************************************************************)
(* Concurrent wen-append processes.  Each is its own process with its own  *)
(* connection; the SELECT of get_last_command and the INSERT with its      *)
(* commit are separate statements in separate transactions, so another     *)
(* process may run between them.                                           *)
(***************************************************************************)
\* main up to the dispatch: the fast path reads the parent pid, the clock
\* and the command, and opens the store
Begin(p) ==
    /\ running[p].pc = "idle"
    /\ Len(entries) + Cardinality({q \in Procs : running[q].pc # "idle"}) < MaxRaced
    /\ \E ts \in Timestamps, pid \in Pids, cmdline \in ShellCmdlines :
          /\ ts >= now
          /\ now' = ts
          /\ running' = [running EXCEPT ![p] =
                [pc |-> "check", ts |-> ts, pid |-> pid, cmdline |-> cmdline]]
    /\ overlapped' = (overlapped \/ \E q \in Procs : q # p /\ running[q].pc # "idle")
    /\ UNCHANGED <<entries, before, argv, sessions, stdout, exc, file, backups, fix, status>>

\* do_append up to the insert (lines 152-161), with ignore_dups and
\* ignore_space true: the process returns and exits, or goes on to insert
Check(p) ==
    /\ running[p].pc = "check"
    /\ running' = [running EXCEPT ![p] =
          IF do_append(entries, running[p].ts, running[p].pid, running[p].cmdline,
                       TRUE, TRUE) = entries
          THEN Idle
          ELSE [running[p] EXCEPT !.pc = "insert"]]
    /\ UNCHANGED <<entries, before, argv, sessions, stdout, exc, file, backups, fix, status,
                   now, overlapped>>

\* do_append, line 164: the insert and its commit, then main closes and
\* the process exits
Insert(p) ==
    /\ running[p].pc = "insert"
    /\ entries' = insert_history(entries, running[p].ts, running[p].pid, running[p].cmdline)
    /\ running' = [running EXCEPT ![p] = Idle]
    /\ UNCHANGED <<before, argv, sessions, stdout, exc, file, backups, fix, status,
                   now, overlapped>>

\* an initialised, empty store
InitRace ==
    /\ entries = <<>>
    /\ before = <<>>
    /\ argv = NoArgs("none")
    /\ sessions = <<>>
    /\ stdout = <<>>
    /\ exc = "none"
    /\ file = init_db
    /\ backups = <<>>
    /\ fix = TRUE
    /\ status = EXIT_SUCCESS
    /\ running = [p \in Procs |-> Idle]
    /\ now = CHOOSE t \in Timestamps : \A u \in Timestamps : t <= u
    /\ overlapped = FALSE

NextRace ==
    \/ \E p \in Procs : Begin(p)
    \/ \E p \in Procs : Check(p)
    \/ \E p \in Procs : Insert(p)

SpecRace == InitRace /\ [][NextRace]_vars

\* The session workload: what the shell hooks of two terminals record, with
\* the default settings (duplicates are suppressed), and the sessions are
\* shown.
NextSession ==
    \/ StartSession(Timestamps, Pids, {None}, MaxEvents)
    \/ StopSession(Timestamps, Pids, {None}, MaxEvents)
    \/ AppendCmd(Timestamps, Pids, ShellCmdlines, {FALSE}, {FALSE}, MaxEvents)
    \/ Show

SpecSession == Init /\ [][NextSession]_vars

\* The boundary workload: session starts and stops given every kind of
\* --cmdline.
NextBoundary ==
    \/ StartSession(Timestamps, Pids, Cmdlines, MaxBoundaries)
    \/ StopSession(Timestamps, Pids, Cmdlines, MaxBoundaries)

SpecBoundary == Init /\ [][NextBoundary]_vars

(***************************************************************************)
(* Vocabulary of the properties.  The event log is the table; the output   *)
(* of get_sessions is the variable `sessions` in a state that a show       *)
(* invocation has just produced (the table is then the one it read).       *)
(***************************************************************************)
Shown == argv.cmd = "show"

RowIds == 1..Len(entries)

IsHistory(i) == entries[i].entrytype = ENTRYTYPE_HISTORY

IsBoundary(i) ==
    entries[i].entrytype \in {ENTRYTYPE_SESSION_START, ENTRYTYPE_SESSION_STOP}

\* the timestamp an event was recorded with, in seconds
TsOf(i) == entries[i].ts[1] * 60 + entries[i].ts[2]

\* the (timestamp, cmdline) of an event
EntryOf(i) == <<TsOf(i), entries[i].cmdline>>

HistoryOf(pid) == {i \in RowIds : IsHistory(i) /\ entries[i].pid = pid}

BoundariesOf(pid) == {i \in RowIds : IsBoundary(i) /\ entries[i].pid = pid}

\* event i is earlier than event j: by timestamp, then by insertion
Earlier(i, j) == TsOf(i) < TsOf(j) \/ (TsOf(i) = TsOf(j) /\ i < j)

\* the events of the set S as entries, earliest first
Chronological(S) ==
    LET earlier == [i \in S |-> Cardinality({j \in S : Earlier(j, i)})]
    IN  [k \in 1..Cardinality(S) |-> EntryOf(CHOOSE i \in S : earlier[i] = k - 1)]

\* the name of the session of a pid with occurrence index i
NameOf(pid, i) ==
    IF i = 0 THEN FormatInt(pid) ELSE FormatInt(pid) \o <<"_">> \o FormatInt(i)

\* the positions in `sessions` of the transcripts of a pid
TranscriptsOf(pid) ==
    {n \in 1..Len(sessions) : \E i \in 0..Len(entries) : sessions[n].k = NameOf(pid, i)}

\* the places <<n, k>> of the entries of all transcripts
Places == {pl \in (1..Len(sessions)) \X (1..Len(entries)) : pl[2] <= Len(sessions[pl[1]].v)}

\* the events of a pid that are in the same run as event i: no boundary
\* event of the pid lies between them
RunOf(pid, i) ==
    {j \in HistoryOf(pid) :
        ~ \E b \in BoundariesOf(pid) :
            \/ Earlier(i, b) /\ Earlier(b, j)
            \/ Earlier(j, b) /\ Earlier(b, i)}

RunsOf(pid) == {RunOf(pid, i) : i \in HistoryOf(pid)}

\* C1: every HISTORY event of the log is placed in exactly one transcript and
\* every entry of every transcript is the (timestamp, cmdline) of a HISTORY
\* event: each (timestamp, cmdline) occurs in the transcripts as many times
\* as there are HISTORY events with it, so none is dropped, duplicated or
\* lost under a reused name, and no entry comes from a boundary event.
C1_EveryHistoryEventInExactlyOneTranscript ==
    Shown =>
        /\ \A pl \in Places : \E i \in RowIds :
               IsHistory(i) /\ EntryOf(i) = sessions[pl[1]].v[pl[2]]
        /\ \A i \in RowIds : IsHistory(i) =>
               Cardinality({pl \in Places : sessions[pl[1]].v[pl[2]] = EntryOf(i)})
                   = Cardinality({j \in RowIds : IsHistory(j) /\ EntryOf(j) = EntryOf(i)})
        /\ Cardinality(Places) = Cardinality({i \in RowIds : IsHistory(i)})
        /\ Cardinality(DictKeys(sessions)) = Len(sessions)

\* a log with a boundary event and a pid with two sessions has been shown
C1_Witness ==
    /\ Shown
    /\ Len(sessions) >= 2
    /\ \E p \in Pids : Cardinality(TranscriptsOf(p)) = 2
    /\ \E i \in RowIds : IsBoundary(i)

\* C2: in every transcript the timestamps of consecutive entries are
\* non-decreasing, whatever the order the events were inserted in.
C2_TimestampsNonDecreasing ==
    Shown =>
        \A n \in 1..Len(sessions) : \A k \in 1..(Len(sessions[n].v) - 1) :
            sessions[n].v[k][1] <= sessions[n].v[k + 1][1]

\* a transcript of two entries with different timestamps has been shown for
\* a log in which the later event was inserted first
C2_Witness ==
    /\ Shown
    /\ \E i, j \in RowIds :
          /\ i < j /\ TsOf(j) < TsOf(i)
          /\ IsHistory(i) /\ IsHistory(j) /\ entries[i].pid = entries[j].pid
          /\ \E n \in 1..Len(sessions) : sessions[n].v = <<EntryOf(j), EntryOf(i)>>

\* START@1, HIST a@2, HIST b@3, STOP@4 of one pid
LogStartHistStop ==
    <<Row(ENTRYTYPE_SESSION_START, 1, 12, None), Row(ENTRYTYPE_HISTORY, 2, 12, <<"a">>),
      Row(ENTRYTYPE_HISTORY, 3, 12, <<"b">>), Row(ENTRYTYPE_SESSION_STOP, 4, 12, None)>>

SessionsOfLogStartHistStop == get_sessions(LogStartHistStop)

\* C3: for every pid the transcripts are exactly the maximal runs of the
\* pid's HISTORY events not separated by a boundary event of the same pid,
\* each in chronological order (events of other pids neither split nor
\* merge a run), every transcript belongs to a pid of the log, and a pid
\* with START, HISTORY.., STOP yields the one transcript named by the pid
\* (the example log is evaluated once, on the new store).
C3_TranscriptsAreMaximalRuns ==
    /\ Shown =>
        /\ \A n \in 1..Len(sessions) : \E p \in Pids : n \in TranscriptsOf(p)
        /\ \A p \in Pids :
            /\ \A n \in TranscriptsOf(p) : \E R \in RunsOf(p) :
                   sessions[n].v = Chronological(R)
            /\ \A R \in RunsOf(p) :
                   Cardinality({n \in TranscriptsOf(p) : sessions[n].v = Chronological(R)})
                       = Cardinality({Q \in RunsOf(p) : Chronological(Q) = Chronological(R)})
    /\ entries = <<>> => SessionsOfLogStartHistStop
           = <<[k |-> <<"1", "2">>, v |-> <<<<2, <<"a">>>>, <<3, <<"b">>>>>>]>>

\* a pid's two HISTORY events with a boundary event of the other pid between
\* them have been shown as one transcript
C3_Witness ==
    /\ Shown
    /\ \E i, j, b \in RowIds :
          /\ IsHistory(i) /\ IsHistory(j) /\ IsBoundary(b)
          /\ entries[i].pid = entries[j].pid /\ entries[b].pid # entries[i].pid
          /\ Earlier(i, b) /\ Earlier(b, j)
          /\ \E n \in 1..Len(sessions) : sessions[n].v = <<EntryOf(i), EntryOf(j)>>

\* START@1, HIST a@2, STOP@3, START@10, HIST b@11, STOP@12 of one pid
LogReusedPid ==
    <<Row(ENTRYTYPE_SESSION_START, 1, 12, None), Row(ENTRYTYPE_HISTORY, 2, 12, <<"a">>),
      Row(ENTRYTYPE_SESSION_STOP, 3, 12, None), Row(ENTRYTYPE_SESSION_START, 10, 12, None),
      Row(ENTRYTYPE_HISTORY, 11, 12, <<"b">>), Row(ENTRYTYPE_SESSION_STOP, 12, 12, None)>>

SessionsOfLogReusedPid == get_sessions(LogReusedPid)

\* the transcript of a pid with occurrence index i
TranscriptOf(pid, i) == DictGet(sessions, NameOf(pid, i))

\* C4: the N transcripts of a pid are named str(pid), pid_1, .., pid_(N-1),
\* and every timestamp of transcript i is >= every timestamp of transcript
\* i+1 (index 0 is the most recent session); the reused pid of the example
\* yields pid -> [(11,b)] and pid_1 -> [(2,a)] (evaluated once, on the new
\* store).
C4_NamesMostRecentFirst ==
    /\ Shown =>
        \A p \in Pids :
            LET N == Cardinality(RunsOf(p))
            IN  /\ {sessions[n].k : n \in TranscriptsOf(p)} = {NameOf(p, i) : i \in 0..(N - 1)}
                /\ \A i \in 0..(N - 2) :
                      \A x \in 1..Len(TranscriptOf(p, i)) :
                          \A y \in 1..Len(TranscriptOf(p, i + 1)) :
                              TranscriptOf(p, i)[x][1] >= TranscriptOf(p, i + 1)[y][1]
    /\ entries = <<>> => SessionsOfLogReusedPid
           = <<[k |-> <<"1", "2">>, v |-> <<<<11, <<"b">>>>>>],
               [k |-> <<"1", "2", "_", "1">>, v |-> <<<<2, <<"a">>>>>>]>>

\* a pid with two sessions at different times has been shown
C4_Witness ==
    /\ Shown
    /\ \E p \in Pids :
          /\ DictHas(sessions, NameOf(p, 0)) /\ DictHas(sessions, NameOf(p, 1))
          /\ TranscriptOf(p, 0)[1][1] > TranscriptOf(p, 1)[1][1]

\* C5: a pid with HISTORY events and no boundary event yields exactly one
\* transcript, named by the bare pid, equal to all its history in
\* chronological order.
C5_NoBoundaryOneTranscript ==
    Shown =>
        \A p \in Pids :
            HistoryOf(p) # {} /\ BoundariesOf(p) = {} =>
                /\ Cardinality(TranscriptsOf(p)) = 1
                /\ DictHas(sessions, FormatInt(p))
                /\ DictGet(sessions, FormatInt(p)) = Chronological(HistoryOf(p))

\* a pid with two HISTORY events and no boundary event has been shown, in a
\* log that holds a boundary event of the other pid
C5_Witness ==
    /\ Shown
    /\ \E p \in Pids :
          /\ Cardinality(HistoryOf(p)) = 2 /\ BoundariesOf(p) = {}
          /\ \E b \in RowIds : IsBoundary(b)
          /\ Len(DictGet(sessions, FormatInt(p))) = 2

\* the states and rows the loop of get_sessions goes through for the table
ScanPrefix(n) ==
    ScanRows(entries, SubSeq(OrderByTsDesc(entries, RowIds), 1, n),
             [acc |-> <<>>, sessions |-> <<>>])

\* C6: no transcript is empty, and a boundary event for a pid with no open
\* accumulator changes neither the accumulators nor the completed sessions.
C6_NoEmptyTranscript ==
    /\ Shown => \A n \in 1..Len(sessions) : sessions[n].v # <<>>
    /\ Shown => \A n \in 0..Len(entries) :
          LET st == ScanPrefix(n)
          IN  /\ \A p \in Pids :
                    \A t \in {ENTRYTYPE_SESSION_START, ENTRYTYPE_SESSION_STOP} :
                        ~ DictHas(st.acc, p) =>
                            ScanRow(st, [entrytype |-> t, ts |-> 0, pid |-> p,
                                         cmdline |-> None]) = st
              /\ \A m \in 1..Len(st.sessions) :
                    \A h \in 1..Len(st.sessions[m].v) : st.sessions[m].v[h] # <<>>

\* a log with two boundary events of a pid and no HISTORY event between
\* them has been shown
C6_Witness ==
    /\ Shown
    /\ \E b, c \in RowIds, p \in Pids :
          /\ b # c /\ b \in BoundariesOf(p) /\ c \in BoundariesOf(p)
          /\ ~ \E i \in HistoryOf(p) : Earlier(b, i) /\ Earlier(i, c)
          /\ Cardinality(TranscriptsOf(p)) = 1

(***************************************************************************)
(* Vocabulary of the recorder properties: the four suppression rules and   *)
(* the events of a table T.                                                *)
(***************************************************************************)
Appending == argv.cmd = "append"

\* rule 1: the command text is absent or empty
EmptyCommand(c) == c = None \/ c = <<>>

\* rule 2: the first character is a space
LeadingSpace(c) == ~ EmptyCommand(c) /\ c[1] = " "

Spaces(n) == [i \in 1..n |-> " "]

\* rule 3: the text is an ignore-list entry between spaces
IgnoreListed(c) ==
    /\ ~ EmptyCommand(c)
    /\ \E e \in {<<"p", "w", "d">>, <<"l", "s">>} :
          \E l, r \in 0..Len(c) : c = Spaces(l) \o e \o Spaces(r)

SecondsIn(T, i) == T[i].ts[1] * 60 + T[i].ts[2]

HistoryIn(T, pid) ==
    {i \in 1..Len(T) : T[i].entrytype = ENTRYTYPE_HISTORY /\ T[i].pid = pid}

\* the most recent HISTORY event of a pid: latest timestamp, then latest
\* inserted (empty when the pid has none)
MostRecentIn(T, pid) ==
    {i \in HistoryIn(T, pid) :
        \A j \in HistoryIn(T, pid) :
            j # i => \/ SecondsIn(T, j) < SecondsIn(T, i)
                     \/ SecondsIn(T, j) = SecondsIn(T, i) /\ j < i}

\* rule 4: the most recent HISTORY event of the pid has the same text
DuplicateOfLast(T, pid, c) == \E i \in MostRecentIn(T, pid) : T[i].cmdline = c

\* T1 is T0 with one more event, a HISTORY event with the given fields
AppendedOne(T0, T1, ts, pid, c) ==
    /\ Len(T1) = Len(T0) + 1
    /\ SubSeq(T1, 1, Len(T0)) = T0
    /\ T1[Len(T1)].entrytype = ENTRYTYPE_HISTORY
    /\ SecondsIn(T1, Len(T1)) = ts
    /\ T1[Len(T1)].pid = pid
    /\ T1[Len(T1)].cmdline = c

\* none of rules 1-3 applies to the text under the space setting
NoRule123(c, ignore_space) ==
    ~ EmptyCommand(c) /\ ~ (ignore_space /\ LeadingSpace(c)) /\ ~ IgnoreListed(c)

\* the HISTORY events of a pid in T with the given text
CountIn(T, pid, c) == Cardinality({i \in HistoryIn(T, pid) : T[i].cmdline = c})

\* the table after the latest invocation is run once more
AfterRepeat ==
    do_append(entries, argv.ts, argv.pid, argv.cmdline, argv.ignore_dups, argv.ignore_space)

\* the latest invocation was the first of two runs of an append that
\* triggers none of rules 1-3, on a store that held no event of the pid with
\* that text
FirstOfTwo ==
    /\ Appending
    /\ NoRule123(argv.cmdline, argv.ignore_space)
    /\ CountIn(before, argv.pid, argv.cmdline) = 0

\* C7 as stated: running do_append twice in a row with the same (ts, pid,
\* cmdline) that triggers none of rules 1-3 leaves exactly one stored HISTORY
\* event for it when ignore_dups is true and exactly two when it is false.
C7_Original ==
    FirstOfTwo =>
        CountIn(AfterRepeat, argv.pid, argv.cmdline) = IF argv.ignore_dups THEN 1 ELSE 2

\* C7 amended: the two runs leave exactly two such events when ignore_dups is
\* false, and exactly one when it is true provided no HISTORY event the pid
\* had before has a timestamp later than ts.
C7_TwiceInARow ==
    FirstOfTwo =>
        IF argv.ignore_dups
        THEN (\A i \in HistoryIn(before, argv.pid) : SecondsIn(before, i) <= argv.ts)
             => /\ CountIn(AfterRepeat, argv.pid, argv.cmdline) = 1
                /\ AfterRepeat = entries
                /\ AppendedOne(before, entries, argv.ts, argv.pid, argv.cmdline)
        ELSE /\ CountIn(AfterRepeat, argv.pid, argv.cmdline) = 2
             /\ AppendedOne(before, entries, argv.ts, argv.pid, argv.cmdline)
             /\ AppendedOne(entries, AfterRepeat, argv.ts, argv.pid, argv.cmdline)

\* the second of two identical runs has been suppressed, on a store where
\* the pid already had a command with another text at the same timestamp
C7_Witness ==
    /\ Appending /\ argv.ignore_dups
    /\ NoRule123(argv.cmdline, argv.ignore_space)
    /\ before = entries
    /\ CountIn(entries, argv.pid, argv.cmdline) = 1
    /\ Cardinality(HistoryIn(entries, argv.pid)) = 2
    /\ \A i \in HistoryIn(entries, argv.pid) : SecondsIn(entries, i) = argv.ts
    /\ entries[Len(entries)].cmdline = argv.cmdline

\* what C8 says of one do_append under the default settings
DefaultAppend(T0, T1, ts, pid, c) ==
    IF EmptyCommand(c) \/ LeadingSpace(c) \/ IgnoreListed(c) THEN T1 = T0
    ELSE ~ DuplicateOfLast(T0, pid, c) => AppendedOne(T0, T1, ts, pid, c)

\* C8: under the default settings do_append leaves the store unchanged when
\* the text is absent or empty, starts with a space or is an ignore-list
\* entry once trimmed, and otherwise, with no duplicate match, appends exactly
\* one HISTORY event with the given ts, pid and untrimmed text.
C8_DefaultSuppression ==
    Appending /\ argv.ignore_dups /\ argv.ignore_space =>
        DefaultAppend(before, entries, argv.ts, argv.pid, argv.cmdline)

\* under the default settings "pwd" has been given and nothing recorded, on
\* a store that holds a command
C8_Witness ==
    /\ Appending /\ argv.ignore_dups /\ argv.ignore_space
    /\ argv.cmdline = <<"p", "w", "d">>
    /\ entries = before /\ entries # <<>>

\* the number of the four rules that apply to a text for a pid
RulesMatching(T, pid, c) ==
    Cardinality({r \in 1..4 :
        \/ r = 1 /\ EmptyCommand(c)
        \/ r = 2 /\ LeadingSpace(c)
        \/ r = 3 /\ IgnoreListed(c)
        \/ r = 4 /\ DuplicateOfLast(T, pid, c)})

\* C9 as stated: each of the four rules can be turned off, so a command that
\* matches only one rule is recorded under some setting of the flags.
C9_Original ==
    \A ts \in Timestamps, pid \in Pids, c \in Cmdlines :
        RulesMatching(entries, pid, c) = 1 =>
            \E ignore_dups, ignore_space \in BOOLEAN :
                do_append(entries, ts, pid, c, ignore_dups, ignore_space) # entries

\* what the amended C9 says of one do_append under a setting of the flags
FlaggedAppend(T0, T1, ts, pid, c, ignore_dups, ignore_space) ==
    IF \/ EmptyCommand(c)
       \/ ignore_space /\ LeadingSpace(c)
       \/ IgnoreListed(c)
       \/ ignore_dups /\ DuplicateOfLast(T0, pid, c)
    THEN T1 = T0
    ELSE AppendedOne(T0, T1, ts, pid, c)

\* C9 amended: the leading-space rule and the duplicate rule each have a
\* flag, on by default, that turns that rule off and leaves the other three
\* rules as they are; the empty-command rule and the ignore-list rule apply
\* under every setting.
C9_TwoRulesToggleable ==
    Appending =>
        FlaggedAppend(before, entries, argv.ts, argv.pid, argv.cmdline,
                      argv.ignore_dups, argv.ignore_space)

\* with --no-ignore-space alone a command with a leading space that repeats
\* the pid's latest command has been given and suppressed as a duplicate
C9_Witness ==
    /\ Appending /\ argv.ignore_dups /\ ~ argv.ignore_space
    /\ LeadingSpace(argv.cmdline) /\ ~ IgnoreListed(argv.cmdline)
    /\ entries = before
    /\ DuplicateOfLast(before, argv.pid, argv.cmdline)

\* C10: with duplicate suppression on and none of rules 1-3 matching,
\* do_append is suppressed exactly when the most recent HISTORY event of the
\* same pid (latest timestamp, ties by insertion) has the identical
\* untrimmed text; events of other pids play no part.
C10_SuppressedIffDuplicateOfLast ==
    Appending /\ argv.ignore_dups /\ NoRule123(argv.cmdline, argv.ignore_space) =>
        (entries = before <=> DuplicateOfLast(before, argv.pid, argv.cmdline))

\* a command has been suppressed as the duplicate of the later inserted of
\* two events of its pid with the same timestamp and different texts
C10_Witness ==
    /\ Appending /\ argv.ignore_dups
    /\ NoRule123(argv.cmdline, argv.ignore_space)
    /\ entries = before
    /\ \E i, j \in HistoryIn(before, argv.pid) :
          /\ i < j /\ SecondsIn(before, i) = SecondsIn(before, j)
          /\ before[i].cmdline # argv.cmdline /\ before[j].cmdline = argv.cmdline

(***************************************************************************)
(* Session boundaries.                                                     *)
(***************************************************************************)
\* T1 is T0 with one more event, of the given kind and with the given fields
AppendedEvent(T0, T1, entrytype, ts, pid, c) ==
    /\ Len(T1) = Len(T0) + 1
    /\ SubSeq(T1, 1, Len(T0)) = T0
    /\ T1[Len(T1)].entrytype = entrytype
    /\ SecondsIn(T1, Len(T1)) = ts
    /\ T1[Len(T1)].pid = pid
    /\ T1[Len(T1)].cmdline = c

\* the latest invocation repeats the one that stored the last event it found
RepeatsPrevious(entrytype) ==
    /\ before # <<>>
    /\ before[Len(before)].entrytype = entrytype
    /\ SecondsIn(before, Len(before)) = argv.ts
    /\ before[Len(before)].pid = argv.pid
    /\ before[Len(before)].cmdline = argv.cmdline

\* C11: every start-session appends exactly one SESSION_START event and every
\* stop-session exactly one SESSION_STOP event, with the given ts and pid,
\* whatever the cmdline (absent, empty, leading space, ignore-list entry) and
\* also when the call repeats the previous one.
C11_BoundariesNeverSuppressed ==
    /\ argv.cmd = "start-session" =>
          AppendedEvent(before, entries, ENTRYTYPE_SESSION_START,
                        argv.ts, argv.pid, argv.cmdline)
    /\ argv.cmd = "stop-session" =>
          AppendedEvent(before, entries, ENTRYTYPE_SESSION_STOP,
                        argv.ts, argv.pid, argv.cmdline)

\* a start-session with an ignore-list entry as its cmdline has repeated the
\* previous call, and both events are stored
C11_Witness ==
    /\ argv.cmd = "start-session"
    /\ IgnoreListed(argv.cmdline)
    /\ RepeatsPrevious(ENTRYTYPE_SESSION_START)
    /\ Len(entries) = 2
    /\ entries[1] = entries[2]

(***************************************************************************)
(* Round trip: commands of one pid, appended and reconstructed.            *)
(***************************************************************************)
\* the log holds only HISTORY events, all of one pid
OnlyHistoryOf(pid) ==
    /\ entries # <<>>
    /\ \A i \in RowIds : IsHistory(i) /\ entries[i].pid = pid

\* the entries of the log in the order they were appended
AppendedOrder == [i \in RowIds |-> EntryOf(i)]

\* the timestamps of the log do not decrease in the order of appending
AppendedInTime == \A i, j \in RowIds : i < j => TsOf(i) <= TsOf(j)

\* the number of times x occurs in the sequence s
Occurrences(s, x) == Cardinality({k \in 1..Len(s) : s[k] = x})

\* C12 as stated: N HISTORY events appended for a single pid, with no
\* boundary event and no suppression, reconstruct to exactly one transcript
\* whose N entries are those events in the order they were appended.
C12_Original ==
    Shown =>
        \A p \in Pids : OnlyHistoryOf(p) =>
            sessions = <<[k |-> FormatInt(p), v |-> AppendedOrder]>>

\* C12 amended: they reconstruct to exactly one transcript, named by the pid,
\* whose N entries are those events in timestamp order, which is the order
\* they were appended in when no event was appended with a timestamp earlier
\* than that of an event appended before it.
C12_RoundTrip ==
    Shown =>
        \A p \in Pids : OnlyHistoryOf(p) =>
            /\ Len(sessions) = 1
            /\ sessions[1].k = FormatInt(p)
            /\ Len(sessions[1].v) = Len(entries)
            /\ \A i \in RowIds :
                  Occurrences(sessions[1].v, EntryOf(i)) = Occurrences(AppendedOrder, EntryOf(i))
            /\ \A k \in 1..(Len(entries) - 1) :
                  sessions[1].v[k][1] <= sessions[1].v[k + 1][1]
            /\ AppendedInTime => sessions[1].v = AppendedOrder

\* three commands of one pid, appended in time with two of them in the same
\* second, have been shown in the order they were appended
C12_Witness ==
    /\ Shown
    /\ \E p \in Pids : OnlyHistoryOf(p)
    /\ Len(entries) = 3
    /\ AppendedInTime
    /\ TsOf(1) < TsOf(3)
    /\ entries[1].cmdline # entries[2].cmdline
    /\ entries[2].cmdline # entries[3].cmdline
    /\ Len(sessions) = 1
    /\ sessions[1].v = AppendedOrder

(***************************************************************************)
(* Events of the same second.                                              *)
(***************************************************************************)
\* every event of the pid has the same timestamp, and there are at least two
SameSecond(pid) ==
    LET S == HistoryOf(pid) \cup BoundariesOf(pid)
    IN  /\ Cardinality(S) >= 2
        /\ \A i, j \in S : TsOf(i) = TsOf(j)

\* the commands of a pid split at the boundary events of the pid, going
\* through the log in the order of insertion from row i on: `done` holds the
\* runs that are closed, oldest first, and `open` the run that is not
RECURSIVE RunsByInsertion(_, _, _, _)
RunsByInsertion(pid, i, open, done) ==
    IF i > Len(entries) THEN (IF open = <<>> THEN done ELSE Append(done, open))
    ELSE IF entries[i].pid # pid THEN RunsByInsertion(pid, i + 1, open, done)
    ELSE IF IsHistory(i) THEN RunsByInsertion(pid, i + 1, Append(open, EntryOf(i)), done)
    ELSE IF open = <<>> THEN RunsByInsertion(pid, i + 1, open, done)
    ELSE RunsByInsertion(pid, i + 1, <<>>, Append(done, open))

\* C13: get_sessions consumes the events latest timestamp first and, among
\* events of the same second, latest inserted first; so when all events of a
\* pid share one second its transcripts are its commands in insertion order,
\* split where its boundary events were inserted (the latest run under the
\* bare pid).
C13_TiesByInsertionOrder ==
    Shown =>
        /\ LET cur == OrderByTsDesc(entries, RowIds)
           IN  /\ Len(cur) = Len(entries)
               /\ \A k, l \in 1..Len(cur) : k < l => Earlier(cur[l], cur[k])
        /\ \A p \in Pids : SameSecond(p) =>
              LET runs == RunsByInsertion(p, 1, <<>>, <<>>)
              IN  /\ Cardinality(TranscriptsOf(p)) = Len(runs)
                  /\ \A i \in 0..(Len(runs) - 1) :
                        /\ DictHas(sessions, NameOf(p, i))
                        /\ TranscriptOf(p, i) = runs[Len(runs) - i]

\* a pid's command, boundary event and other command, inserted in this order
\* with one timestamp, have been shown as two sessions
C13_Witness ==
    /\ Shown
    /\ \E p \in Pids, i, b, j \in RowIds :
          /\ SameSecond(p)
          /\ i < b /\ b < j
          /\ i \in HistoryOf(p) /\ b \in BoundariesOf(p) /\ j \in HistoryOf(p)
          /\ entries[i].cmdline # entries[j].cmdline
          /\ DictHas(sessions, NameOf(p, 0)) /\ DictHas(sessions, NameOf(p, 1))
          /\ TranscriptOf(p, 0) = <<EntryOf(j)>>
          /\ TranscriptOf(p, 1) = <<EntryOf(i)>>

C15_AppendOnly ==
    [][/\ Len(entries') \in {Len(entries), Len(entries) + 1}
       /\ SubSeq(entries', 1, Len(entries)) = entries]_vars

\* a command, a session stop and a session start have been recorded one
\* after the other, and a repeated command has then been suppressed
C15_Witness ==
    /\ Appending
    /\ entries = before
    /\ Len(entries) = 3
    /\ entries[1].entrytype = ENTRYTYPE_HISTORY
    /\ entries[2].entrytype = ENTRYTYPE_SESSION_STOP
    /\ entries[3].entrytype = ENTRYTYPE_SESSION_START

(***************************************************************************)
(* Incompatible stores and the exit status.                                *)
(***************************************************************************)
\* the file exists and its application id or its version does not match
Incompatible(f) ==
    f.exists /\ (f.application_id # 7234935 \/ f.user_version # 7)

\* the table the requested operation works on: that of a compatible store,
\* or the empty one of a new or repaired store
OpenedTable == IF file.exists /\ ~ Incompatible(file) THEN entries ELSE <<>>

\* the requested operation has run on the table T0 in this step
OperationRan(T0) ==
    /\ argv'.cmd = "start-session" =>
          AppendedEvent(T0, entries', ENTRYTYPE_SESSION_START,
                        argv'.ts, argv'.pid, argv'.cmdline)
    /\ argv'.cmd = "stop-session" =>
          AppendedEvent(T0, entries', ENTRYTYPE_SESSION_STOP,
                        argv'.ts, argv'.pid, argv'.cmdline)
    /\ argv'.cmd = "append" =>
          FlaggedAppend(T0, entries', argv'.ts, argv'.pid, argv'.cmdline, TRUE, TRUE)
    /\ argv'.cmd = "show" =>
          /\ entries' = T0
          /\ exc' = "none"
          /\ Cardinality({i \in 1..Len(stdout') : stdout'[i][1] = "SESSION"})
                = Len(sessions')
          /\ (T0 = <<>> => sessions' = <<>> /\ stdout' = <<>>)

\* C16: an invocation that finds an incompatible file and is not given --fix
\* exits with a failure status, runs nothing and leaves the file as it is;
\* every other invocation (compatible, new or repaired store) runs the
\* requested operation on a compatible store and exits with status 0, also a
\* show that finds no session.
C16_ExitStatus ==
    [][IF Incompatible(file) /\ ~ fix'
       THEN /\ status' # 0
            /\ file' = file /\ entries' = entries /\ backups' = backups
            /\ sessions' = <<>> /\ stdout' = <<>>
       ELSE /\ status' = 0
            /\ file'.exists /\ ~ Incompatible(file')
            /\ OperationRan(OpenedTable)
            /\ Incompatible(file) =>
                  backups' = Append(backups, [file |-> file, entries |-> entries])
            /\ ~ Incompatible(file) => backups' = backups]_vars

\* an append without --fix has found a store of another version that holds
\* a command, and has failed
C16_Witness ==
    /\ Appending /\ ~ fix
    /\ status = 255
    /\ file.exists /\ file.application_id = 7234935 /\ file.user_version # 7
    /\ entries # <<>> /\ entries = before

(***************************************************************************)
(* What show prints.                                                       *)
(***************************************************************************)
\* the lines of stdout that open a block
Headers == {i \in 1..Len(stdout) : stdout[i][1] = "SESSION"}

\* the line that closes the block opened at line i
EndOf(i) ==
    CHOOSE e \in (i + 1)..Len(stdout) :
        /\ stdout[e][1] = "END SESSION"
        /\ \A d \in (i + 1)..(e - 1) : stdout[d][1] # "END SESSION"

\* the latest timestamp of a transcript
LastTs(h) == CHOOSE t \in {h[k][1] : k \in 1..Len(h)} : \A k \in 1..Len(h) : h[k][1] <= t

\* the line printed for an entry of a transcript
LineOf(entry) == <<"LINE", <<entry[1] \div 60, entry[1] % 60>>, entry[2]>>

\* C17: show prints one block per session, in ascending order of the
\* sessions' chronologically last timestamps, and the lines of each block are
\* the entries of the transcript in transcript order.
C17_ShowAscendingByLastTimestamp ==
    Shown =>
        /\ exc = "none"
        /\ Cardinality(Headers) = Len(sessions)
        /\ {stdout[i][2] : i \in Headers} = DictKeys(sessions)
        /\ stdout # <<>> => 1 \in Headers
        /\ \A i \in Headers :
              LET h == DictGet(sessions, stdout[i][2])
              IN  /\ i + Len(h) + 1 <= Len(stdout)
                  /\ EndOf(i) = i + Len(h) + 1
                  /\ stdout[EndOf(i)][2] = stdout[i][2]
                  /\ \A k \in 1..Len(h) : stdout[i + k] = LineOf(h[k])
                  /\ EndOf(i) < Len(stdout) => EndOf(i) + 1 \in Headers
        /\ \A i, j \in Headers :
              i < j => LastTs(DictGet(sessions, stdout[i][2]))
                          <= LastTs(DictGet(sessions, stdout[j][2]))

\* two sessions have been printed in the order of their last timestamps,
\* which is not the order get_sessions returned them in
C17_Witness ==
    /\ Shown
    /\ Len(sessions) = 2
    /\ LastTs(sessions[2].v) < LastTs(sessions[1].v)
    /\ stdout[1] = <<"SESSION", sessions[2].k>>
    /\ \E i \in Headers : i > 1 /\ stdout[i][2] = sessions[1].k

(***************************************************************************)
(* The duplicate check is not atomic with the insert.                      *)
(***************************************************************************)
\* event i of T is before event j: by timestamp, then by insertion
EarlierIn(T, i, j) ==
    \/ SecondsIn(T, i) < SecondsIn(T, j)
    \/ SecondsIn(T, i) = SecondsIn(T, j) /\ i < j

\* two HISTORY events of one pid with the same text and no HISTORY event of
\* the pid between them
ConsecutiveIdentical(T) ==
    \E pid \in Pids : \E i, j \in HistoryIn(T, pid) :
        /\ EarlierIn(T, i, j)
        /\ T[i].cmdline = T[j].cmdline
        /\ ~ \E k \in HistoryIn(T, pid) : EarlierIn(T, i, k) /\ EarlierIn(T, k, j)

\* C18: with duplicate suppression on, a store with two consecutive
\* identical HISTORY events of a pid is reached only when invocations have
\* overlapped: invocations that run one after the other, with timestamps that
\* do not go back, never leave one (the overlapping interleaving that does is
\* the witness).
C18_DuplicatesOnlyByOverlap ==
    /\ ConsecutiveIdentical(entries) => overlapped
    /\ \A p, q \in Procs :
          p # q /\ running[p].pc = "insert" /\ running[q].pc = "insert" => overlapped

\* both processes were given the same second, pid and text, both read the
\* last command before either inserted, and both rows are stored
C18_Witness ==
    /\ \A p \in Procs : running[p].pc = "idle"
    /\ overlapped
    /\ Len(entries) = 2
    /\ entries[1] = entries[2]
    /\ entries[1].entrytype = ENTRYTYPE_HISTORY
    /\ ConsecutiveIdentical(entries)

(***************************************************************************)
(* The sort key of show.                                                   *)
(***************************************************************************)
\* C19: for every store the recorder operations reach, the key do_show sorts
\* a session by is the integer timestamp of one of the log's commands, never
\* the None of an empty transcript: the sort compares integers only and show
\* ends without an exception.
C19_SortKeyIsTimestamp ==
    Shown =>
        /\ \A n \in 1..Len(sessions) :
              /\ hist_key(sessions[n].v) # <<>>
              /\ Len(hist_key(sessions[n].v)) = 1
              /\ \E i \in RowIds : IsHistory(i) /\ hist_key(sessions[n].v)[1] = TsOf(i)
        /\ ~ SortRaises(sessions)
        /\ exc = "none"
        /\ status = 0

\* two sessions have been sorted and printed for a log whose latest event is
\* a boundary event, which found no open session to close
C19_Witness ==
    /\ Shown
    /\ Len(sessions) = 2
    /\ exc = "none"
    /\ \E b \in RowIds :
          /\ IsBoundary(b)
          /\ \A i \in RowIds \ {b} : Earlier(i, b)
    /\ Cardinality(Headers) = 2
    /\ \A n \in 1..2 : hist_key(sessions[n].v) \in {<<t>> : t \in Timestamps}

(***************************************************************************)
(* The duplicate check and session boundaries.                             *)
(***************************************************************************)
\* the boundary events of a pid in T
BoundariesIn(T, pid) ==
    {i \in 1..Len(T) : T[i].entrytype # ENTRYTYPE_HISTORY /\ T[i].pid = pid}

\* a session of the pid has ended, or a new one has begun, after the pid's
\* most recent command
BoundarySinceLastCommand(T, pid) ==
    \E i \in MostRecentIn(T, pid) : \E b \in BoundariesIn(T, pid) : EarlierIn(T, i, b)

\* HIST c@1, SESSION_STOP@2, SESSION_START@3 of one pid
LogStoppedAndRestarted ==
    <<Row(ENTRYTYPE_HISTORY, 1, 12, <<"a">>), Row(ENTRYTYPE_SESSION_STOP, 2, 12, None),
      Row(ENTRYTYPE_SESSION_START, 3, 12, None)>>

\* C20: the duplicate check looks at the pid's most recent HISTORY event
\* whatever boundary events of the pid have followed it: with suppression on,
\* a command equal to it is not recorded in the session that has begun since,
\* and after [HIST c, SESSION_STOP, SESSION_START] the append of c leaves the
\* log as it is, with the one transcript of the old session (the example is
\* evaluated once, on the new store).
C20_DuplicateCheckIgnoresBoundaries ==
    /\ Appending /\ argv.ignore_dups /\ NoRule123(argv.cmdline, argv.ignore_space)
          /\ BoundarySinceLastCommand(before, argv.pid) =>
              /\ DuplicateOfLast(before, argv.pid, argv.cmdline) => entries = before
              /\ ~ DuplicateOfLast(before, argv.pid, argv.cmdline) =>
                    AppendedOne(before, entries, argv.ts, argv.pid, argv.cmdline)
    /\ entries = <<>> =>
          /\ do_append(LogStoppedAndRestarted, 4, 12, <<"a">>, TRUE, TRUE)
                = LogStoppedAndRestarted
          /\ get_sessions(LogStoppedAndRestarted)
                = <<[k |-> <<"1", "2">>, v |-> <<<<1, <<"a">>>>>>]>>
          /\ Len(do_append(LogStoppedAndRestarted, 4, 12, <<"a">>, FALSE, TRUE)) = 4

\* a pid's command, session stop and session start have been recorded in
\* this order, and the same command given next has been suppressed
C20_Witness ==
    /\ Appending /\ argv.ignore_dups
    /\ entries = before
    /\ Len(before) = 3
    /\ \A i \in 1..3 : before[i].pid = argv.pid
    /\ before[1].entrytype = ENTRYTYPE_HISTORY /\ before[1].cmdline = argv.cmdline
    /\ before[2].entrytype = ENTRYTYPE_SESSION_STOP
    /\ before[3].entrytype = ENTRYTYPE_SESSION_START
    /\ EarlierIn(before, 1, 2) /\ EarlierIn(before, 2, 3)
    /\ SecondsIn(before, 3) <= argv.ts

====
